---- MODULE Spec2Model ----
(***************************************************************************)
(* RenewalAnalysis.py: the A/B test renewal analysis script.               *)
(*                                                                         *)
(* The script is one sequential run over module-level variables: load the  *)
(* data file, check the groups' balance, aggregate per group, run the      *)
(* z-test on the renewal proportions, run Welch's t-test on the discounted *)
(* ARR, and print one final recommendation.  The model keeps the script's  *)
(* variables under their names, the position of the run in pc, the lines   *)
(* printed in out (one tag per print statement that matters) and the names *)
(* the run has bound so far in bound.                                      *)
(*                                                                         *)
(* Numbers.  Python floats are kept as exact rationals num/den (den > 0)   *)
(* with a NaN flag; comparisons follow IEEE: any comparison with NaN is    *)
(* false.  The datasets hold small integers, for which the float results   *)
(* compare exactly as the rationals do.                                    *)
(*                                                                         *)
(* Datasets.  Every cell of a record is present (a Customer_ID, a label,   *)
(* a 0/1 Renewal_Status, a numeric Discounted_ARR); labels other than A    *)
(* and B may occur.  Records are enumerated up to order: every aggregate   *)
(* of the script is independent of the order of the rows.                  *)
(***************************************************************************)
EXTENDS Integers, Sequences, FiniteSets, TLC

VARIABLES
    file,                   \* the file named DATA_FILE_NAME: NoFile or its rows
    pc,                     \* position of the run
    df,                     \* the DataFrame read (line 17)
    group_counts,           \* line 27
    total_obs,              \* line 31
    grouped_stats,          \* line 43
    raw_renewal_A, raw_renewal_B, raw_arr_A, raw_arr_B,     \* lines 51-54
    renewals_A, nobs_A, renewals_B, nobs_B,                 \* lines 73-76
    p_value_prop,                                           \* line 85
    p_value_arr,                                            \* line 122
    renewal_is_significant, arr_is_significant,             \* lines 141-142
    out,                    \* the lines printed, in order
    error,                  \* the exception that ended the run, or "none"
    bound                   \* the module-level names assigned so far

vars == <<file, pc, df, group_counts, total_obs, grouped_stats,
          raw_renewal_A, raw_renewal_B, raw_arr_A, raw_arr_B,
          renewals_A, nobs_A, renewals_B, nobs_B,
          p_value_prop, p_value_arr,
          renewal_is_significant, arr_is_significant, out, error, bound>>

-----------------------------------------------------------------------------
(* Bounds of the model *)

\* Largest number of rows of a dataset of the full pipeline.
MaxRecords == 4

\* Largest size of group A and of group B in the datasets of the balance check.
MaxGroupCount == 53

\* Largest number of rows with another label in the datasets of the balance check.
MaxOtherCount == 1

-----------------------------------------------------------------------------
(* Floats *)

NaN == [nan |-> TRUE, num |-> 0, den |-> 1]

Rat(n, d) == [nan |-> FALSE, num |-> n, den |-> d]

\* x < y on floats: false when either side is NaN.
FloatLt(x, y) == ~x.nan /\ ~y.nan /\ x.num * y.den < y.num * x.den

\* x > y on floats: false when either side is NaN.
FloatGt(x, y) == ~x.nan /\ ~y.nan /\ x.num * y.den > y.num * x.den

Abs(i) == IF i < 0 THEN -i ELSE i

\* ALPHA = 0.05
ALPHA == Rat(5, 100)

-----------------------------------------------------------------------------
(* Datasets *)

NoFile == [exists |-> FALSE, rows |-> <<>>]

FileOf(d) == [exists |-> TRUE, rows |-> d]

Labels == <<"A", "B", "C">>

ARRValues == <<100, 110>>

\* The rows a dataset is made of, numbered: label, Renewal_Status, Discounted_ARR.
RowKinds == 0 .. (Len(Labels) * 2 * Len(ARRValues) - 1)

RowOfKind(k, id) ==
    [Customer_ID    |-> id,
     Test_Group     |-> Labels[(k \div (2 * Len(ARRValues))) + 1],
     Renewal_Status |-> (k \div Len(ARRValues)) % 2,
     Discounted_ARR |-> ARRValues[(k % Len(ARRValues)) + 1]]

\* Every dataset of at most MaxRecords rows, up to the order of the rows.
Datasets ==
    UNION { { [i \in 1..n |-> RowOfKind(s[i], i)] :
                s \in { t \in [1..n -> RowKinds] :
                          \A i \in 1..(n-1) : t[i] <= t[i+1] } } :
            n \in 0..MaxRecords }

\* A dataset of a rows labelled A, b labelled B and c labelled C (same outcomes).
UniformDataset(a, b, c) ==
    [i \in 1..(a + b + c) |->
        [Customer_ID    |-> i,
         Test_Group     |-> IF i <= a THEN "A" ELSE IF i <= a + b THEN "B" ELSE "C",
         Renewal_Status |-> 1,
         Discounted_ARR |-> ARRValues[1]]]

BalanceDatasets ==
    { UniformDataset(a, b, c) :
        a \in 0..MaxGroupCount, b \in 0..MaxGroupCount, c \in 0..MaxOtherCount }

-----------------------------------------------------------------------------
(* pandas *)

RECURSIVE SumOver(_, _)
\* Sum of f[i] over the indices in S.
SumOver(f, S) ==
    IF S = {} THEN 0
    ELSE LET i == CHOOSE j \in S : TRUE IN f[i] + SumOver(f, S \ {i})

\* The rows of d selected by the boolean mask d['Test_Group'] == g.
Mask(d, g) == { i \in DOMAIN d : d[i].Test_Group = g }

\* Series.count(): the number of cells of the column on the rows S.
ColumnCount(d, col, S) == Cardinality({ i \in S : col \in DOMAIN d[i] })

\* Series.sum() of the column on the rows S.
ColumnSum(d, col, S) == SumOver([i \in DOMAIN d |-> d[i][col]], S)

\* Series.mean(): NaN on no rows.
ColumnMean(d, col, S) ==
    IF S = {} THEN NaN ELSE Rat(ColumnSum(d, col, S), Cardinality(S))

\* The sample variance (ddof = 1) of the column on the rows S, NaN on fewer than
\* two rows: n * sum(x^2) - sum(x)^2 over n * (n - 1).
ColumnVar(d, col, S) ==
    LET n  == Cardinality(S)
        s1 == ColumnSum(d, col, S)
        s2 == SumOver([i \in DOMAIN d |-> d[i][col] * d[i][col]], S)
    IN IF n < 2 THEN NaN ELSE Rat(n * s2 - s1 * s1, n * (n - 1))

\* df['Test_Group'].value_counts(): the labels that occur, each with its count.
ValueCounts(d) ==
    [g \in { d[i].Test_Group : i \in DOMAIN d } |-> Cardinality(Mask(d, g))]

\* GroupByAgg with Total_Customers counted over the whole frame, not per group.
GroupByAggCountsAllRows(d) ==
    [g \in { d[i].Test_Group : i \in DOMAIN d } |->
        [Total_Customers    |-> ColumnCount(d, "Customer_ID", DOMAIN d),
         Renewal_Rate       |-> ColumnMean(d, "Renewal_Status", Mask(d, g)),
         Avg_Discounted_ARR |-> ColumnMean(d, "Discounted_ARR", Mask(d, g)),
         Std_Discounted_ARR |-> ColumnVar(d, "Discounted_ARR", Mask(d, g))]]

\* df.groupby('Test_Group').agg(...): one row per label that occurs.  The standard
\* deviation is kept as its square, the sample variance.
GroupByAgg(d) ==
    [g \in { d[i].Test_Group : i \in DOMAIN d } |->
        [Total_Customers    |-> ColumnCount(d, "Customer_ID", Mask(d, g)),
         Renewal_Rate       |-> ColumnMean(d, "Renewal_Status", Mask(d, g)),
         Avg_Discounted_ARR |-> ColumnMean(d, "Discounted_ARR", Mask(d, g)),
         Std_Discounted_ARR |-> ColumnVar(d, "Discounted_ARR", Mask(d, g))]]

-----------------------------------------------------------------------------
(* The two library tests.  Only the p-value is kept of a test's result: the     *)
(* statistic is printed and never read again.                                  *)

\* p-values the tests return below ALPHA, at ALPHA and above it.  The normal and
\* Student distribution functions are not computed: the p-value of a test that is
\* not degenerate is one of these samples.
PSignificant == { Rat(1, 1000), Rat(49, 1000) }

PAtAlpha == { Rat(50, 1000) }

PNotSignificant == { Rat(51, 1000), Rat(999, 1000) }

\* Every value a test's p-value can take.
PValues ==
    { NaN, Rat(0, 1), Rat(1, 1) } \cup PSignificant \cup PAtAlpha \cup PNotSignificant

\* proportions_ztest(count=[kA, kB], nobs=[nA, nB]): the pooled two-sample z-test,
\* the p-values it can return.
\* z = (kA/nA - kB/nB) / sqrt(p (1 - p) (1/nA + 1/nB)) with p = (kA + kB)/(nA + nB):
\* 0/0 = NaN when the pooled standard error is zero, no exception.  z = 0 gives the
\* p-value 1.  The two-sided p-value is below 0.05 exactly when z^2 > 3.8415 (the
\* 0.95 quantile of chi^2 with one degree of freedom, 3.84146, to four places: no
\* z^2 of the group sizes modelled lies within that rounding).
ProportionsZTest(kA, nA, kB, nB) ==
    LET N   == nA + nB
        K   == kA + kB
        d   == kA * nB - kB * nA
        zn  == d * d * N
        zd  == nA * nB * K * (N - K)
    IN IF nA = 0 \/ nB = 0 \/ K * (N - K) = 0 THEN { NaN }
       ELSE IF d = 0 THEN { Rat(1, 1) }
       ELSE IF zn * 10000 > 38415 * zd THEN PSignificant
       ELSE PNotSignificant

\* stats.ttest_ind(arr_A, arr_B, equal_var=False): Welch's t-test on the rows SA
\* and SB, the p-values it can return.
\* t = (mean_A - mean_B) / sqrt(var_A/nA + var_B/nB).  A group of fewer than two
\* rows has no variance: NaN.  With both variances zero the denominator is zero:
\* 0/0 = NaN on equal means, otherwise t is infinite and the p-value 0.  t = 0
\* gives the p-value 1.
TTestInd(d, SA, SB) ==
    LET nA == Cardinality(SA)
        nB == Cardinality(SB)
        vA == ColumnVar(d, "Discounted_ARR", SA)
        vB == ColumnVar(d, "Discounted_ARR", SB)
        dm == ColumnSum(d, "Discounted_ARR", SA) * nB
                - ColumnSum(d, "Discounted_ARR", SB) * nA
    IN IF nA < 2 \/ nB < 2 THEN { NaN }
       ELSE IF vA.num = 0 /\ vB.num = 0
         THEN IF dm = 0 THEN { NaN } ELSE { Rat(0, 1) }
       ELSE IF dm = 0 THEN { Rat(1, 1) }
       ELSE PSignificant \cup PAtAlpha \cup PNotSignificant

-----------------------------------------------------------------------------
(* The script's own conditions *)

\* Unbalanced with >= in place of >.
UnbalancedAtFivePercent(a, b, n) == Abs(a - b) * 100 >= 5 * n

\* Line 32: abs(group_counts['A'] - group_counts['B']) / total_obs > 0.05,
\* with 0.05 = 5/100 and total_obs > 0.  The float quotient is correctly rounded
\* and 0.05 is the float nearest 1/20, so for any number of rows a file can hold
\* the float comparison is the exact one.
Unbalanced(a, b, n) == Abs(a - b) * 100 > 5 * n

\* Line 94: p_value_prop < ALPHA.
ZTestRejects(p) == FloatLt(p, ALPHA)

\* Line 132: p_value_arr < ALPHA.
TTestRejects(p) == FloatLt(p, ALPHA)

\* Line 141: renewal_is_significant = p_value_prop < ALPHA.
RenewalIsSignificant(p) == FloatLt(p, ALPHA)

\* ArrIsSignificant with <= in place of <.
ArrIsSignificantAtAlpha(p) == ~p.nan /\ p.num * ALPHA.den <= ALPHA.num * p.den

\* Line 142: arr_is_significant = p_value_arr < ALPHA.
ArrIsSignificant(p) == FloatLt(p, ALPHA)

\* Lines 171 and 177: winner = 'A' if raw_A > raw_B else 'B'.
Winner(rawA, rawB) == IF FloatGt(rawA, rawB) THEN "A" ELSE "B"

\* Recommendation with the second branch an if of its own, not an elif.
RecommendationNoElif(rs, as, rrA, rrB, arA, arB) ==
    (IF rs /\ as THEN
        IF FloatGt(rrA, rrB) /\ FloatGt(arA, arB)
          THEN << "REC_CLEAR_WINNER_A", "ACTION_IMPLEMENT_LOWER_DISCOUNT" >>
        ELSE IF FloatGt(rrB, rrA) /\ FloatGt(arB, arA)
          THEN << "REC_CLEAR_WINNER_B", "ACTION_IMPLEMENT_HIGHER_DISCOUNT" >>
        ELSE << "REC_MIXED", "ACTION_STAKEHOLDERS_DECIDE" >>
     ELSE << >>)
    \o (IF rs \/ as THEN
            << "REC_ONLY_ONE" >>
            \o (IF rs THEN << "RENEWAL_SIG_WINNER_" \o Winner(rrA, rrB) >>
                      ELSE << "RENEWAL_NOT_SIG" >>)
            \o (IF as THEN << "ARR_SIG_WINNER_" \o Winner(arA, arB) >>
                      ELSE << "ARR_NOT_SIG" >>)
            \o << "ACTION_COLLECT_MORE_DATA" >>
        ELSE << "REC_NEITHER", "ACTION_KEEP_DEFAULT" >>)

\* Recommendation with a clear winner on either metric (or in place of and).
RecommendationEitherMetric(rs, as, rrA, rrB, arA, arB) ==
    IF rs /\ as THEN
        IF FloatGt(rrA, rrB) \/ FloatGt(arA, arB)
          THEN << "REC_CLEAR_WINNER_A", "ACTION_IMPLEMENT_LOWER_DISCOUNT" >>
        ELSE IF FloatGt(rrB, rrA) \/ FloatGt(arB, arA)
          THEN << "REC_CLEAR_WINNER_B", "ACTION_IMPLEMENT_HIGHER_DISCOUNT" >>
        ELSE << "REC_MIXED", "ACTION_STAKEHOLDERS_DECIDE" >>
    ELSE IF rs \/ as THEN
        << "REC_ONLY_ONE" >>
        \o (IF rs THEN << "RENEWAL_SIG_WINNER_" \o Winner(rrA, rrB) >>
                  ELSE << "RENEWAL_NOT_SIG" >>)
        \o (IF as THEN << "ARR_SIG_WINNER_" \o Winner(arA, arB) >>
                  ELSE << "ARR_NOT_SIG" >>)
        \o << "ACTION_COLLECT_MORE_DATA" >>
    ELSE << "REC_NEITHER", "ACTION_KEEP_DEFAULT" >>

\* Recommendation without the mixed branch: B wins whenever A is not the clear
\* winner.
RecommendationNoMixedBranch(rs, as, rrA, rrB, arA, arB) ==
    IF rs /\ as THEN
        IF FloatGt(rrA, rrB) /\ FloatGt(arA, arB)
          THEN << "REC_CLEAR_WINNER_A", "ACTION_IMPLEMENT_LOWER_DISCOUNT" >>
        ELSE << "REC_CLEAR_WINNER_B", "ACTION_IMPLEMENT_HIGHER_DISCOUNT" >>
    ELSE IF rs \/ as THEN
        << "REC_ONLY_ONE" >>
        \o (IF rs THEN << "RENEWAL_SIG_WINNER_" \o Winner(rrA, rrB) >>
                  ELSE << "RENEWAL_NOT_SIG" >>)
        \o (IF as THEN << "ARR_SIG_WINNER_" \o Winner(arA, arB) >>
                  ELSE << "ARR_NOT_SIG" >>)
        \o << "ACTION_COLLECT_MORE_DATA" >>
    ELSE << "REC_NEITHER", "ACTION_KEEP_DEFAULT" >>

\* Lines 151-187: the lines of the final recommendation.
Recommendation(rs, as, rrA, rrB, arA, arB) ==
    IF rs /\ as THEN
        IF FloatGt(rrA, rrB) /\ FloatGt(arA, arB)
          THEN << "REC_CLEAR_WINNER_A", "ACTION_IMPLEMENT_LOWER_DISCOUNT" >>
        ELSE IF FloatGt(rrB, rrA) /\ FloatGt(arB, arA)
          THEN << "REC_CLEAR_WINNER_B", "ACTION_IMPLEMENT_HIGHER_DISCOUNT" >>
        ELSE << "REC_MIXED", "ACTION_STAKEHOLDERS_DECIDE" >>
    ELSE IF rs \/ as THEN
        << "REC_ONLY_ONE" >>
        \o (IF rs THEN << "RENEWAL_SIG_WINNER_" \o Winner(rrA, rrB) >>
                  ELSE << "RENEWAL_NOT_SIG" >>)
        \o (IF as THEN << "ARR_SIG_WINNER_" \o Winner(arA, arB) >>
                  ELSE << "ARR_NOT_SIG" >>)
        \o << "ACTION_COLLECT_MORE_DATA" >>
    ELSE << "REC_NEITHER", "ACTION_KEEP_DEFAULT" >>

-----------------------------------------------------------------------------
(* The run *)

rawVars == <<raw_renewal_A, raw_renewal_B, raw_arr_A, raw_arr_B>>

countVars == <<renewals_A, nobs_A, renewals_B, nobs_B>>

flagVars == <<renewal_is_significant, arr_is_significant>>

\* The state before line 15, with the data file f.
InitWith(f) ==
    /\ file = f
    /\ pc = "load"
    /\ df = <<>>
    /\ group_counts = <<>>
    /\ total_obs = 0
    /\ grouped_stats = <<>>
    /\ raw_renewal_A = NaN /\ raw_renewal_B = NaN
    /\ raw_arr_A = NaN /\ raw_arr_B = NaN
    /\ renewals_A = 0 /\ nobs_A = 0 /\ renewals_B = 0 /\ nobs_B = 0
    /\ p_value_prop = NaN /\ p_value_arr = NaN
    /\ renewal_is_significant = FALSE /\ arr_is_significant = FALSE
    /\ out = <<>>
    /\ error = "none"
    /\ bound = {}

Init == \E f \in { NoFile } \cup { FileOf(d) : d \in Datasets } : InitWith(f)

\* Lines 15-21: read the file, or report that it is missing and exit.
LoadData ==
    /\ pc = "load"
    /\ IF file.exists
         THEN /\ df' = file.rows
              /\ bound' = bound \cup { "df" }
              /\ pc' = "check"
              /\ out' = out
         ELSE /\ out' = out \o << "FATAL_FILE_NOT_FOUND" >>
              /\ pc' = "exited"
              /\ UNCHANGED <<df, bound>>
    /\ UNCHANGED <<file, group_counts, total_obs, grouped_stats, rawVars, countVars,
                   p_value_prop, p_value_arr, flagVars, error>>

\* QualityChecks with the run ended after the balance warning.
QualityChecksHaltOnWarning ==
    /\ pc = "check"
    /\ LET gc == ValueCounts(df)
           n  == Len(df)
       IN /\ group_counts' = gc
          /\ total_obs' = n
          /\ bound' = bound \cup { "group_counts", "total_obs" }
          /\ IF n > 0 /\ ~({ "A", "B" } \subseteq DOMAIN gc)
               THEN /\ out' = out \o << "GROUP_COUNTS" >>
                    /\ error' = "KeyError"
                    /\ pc' = "error"
               ELSE IF n > 0 /\ Unbalanced(gc["A"], gc["B"], n)
               THEN /\ out' = out \o << "GROUP_COUNTS", "WARNING_UNBALANCED" >>
                    /\ error' = error
                    /\ pc' = "exited"
               ELSE /\ out' = out \o << "GROUP_COUNTS", "DATA_CHECKS_COMPLETE" >>
                    /\ error' = error
                    /\ pc' = "describe"
    /\ UNCHANGED <<file, df, grouped_stats, rawVars, countVars,
                   p_value_prop, p_value_arr, flagVars>>

\* Lines 24-35: the group counts and the balance warning.  The lookups of 'A' and
\* 'B' in group_counts are evaluated only when total_obs > 0, and raise KeyError on
\* a label with no row.
QualityChecks ==
    /\ pc = "check"
    /\ LET gc == ValueCounts(df)
           n  == Len(df)
       IN /\ group_counts' = gc
          /\ total_obs' = n
          /\ bound' = bound \cup { "group_counts", "total_obs" }
          /\ IF n > 0 /\ ~({ "A", "B" } \subseteq DOMAIN gc)
               THEN /\ out' = out \o << "GROUP_COUNTS" >>
                    /\ error' = "KeyError"
                    /\ pc' = "error"
               ELSE /\ out' = out \o << "GROUP_COUNTS" >>
                              \o (IF n > 0 /\ Unbalanced(gc["A"], gc["B"], n)
                                    THEN << "WARNING_UNBALANCED" >> ELSE << >>)
                              \o << "DATA_CHECKS_COMPLETE" >>
                    /\ error' = error
                    /\ pc' = "describe"
    /\ UNCHANGED <<file, df, grouped_stats, rawVars, countVars,
                   p_value_prop, p_value_arr, flagVars>>

\* Lines 40-62: the per-group aggregation, then the four .loc lookups, which raise
\* KeyError on a label with no row.  On the empty frame the aggregation has no
\* group and the first lookup raises.
DescriptiveStatistics ==
    /\ pc = "describe"
    /\ LET gs == GroupByAgg(df)
       IN /\ grouped_stats' = gs
          /\ IF { "A", "B" } \subseteq DOMAIN gs
               THEN /\ raw_renewal_A' = gs["A"].Renewal_Rate
                    /\ raw_renewal_B' = gs["B"].Renewal_Rate
                    /\ raw_arr_A' = gs["A"].Avg_Discounted_ARR
                    /\ raw_arr_B' = gs["B"].Avg_Discounted_ARR
                    /\ bound' = bound \cup { "grouped_stats", "raw_renewal_A",
                                            "raw_renewal_B", "raw_arr_A", "raw_arr_B" }
                    /\ out' = out \o << "GROUPED_STATS" >>
                    /\ error' = error
                    /\ pc' = "ztest"
               ELSE /\ raw_renewal_A' = IF "A" \in DOMAIN gs
                                          THEN gs["A"].Renewal_Rate ELSE raw_renewal_A
                    /\ bound' = bound \cup { "grouped_stats" }
                                  \cup (IF "A" \in DOMAIN gs THEN { "raw_renewal_A" } ELSE {})
                    /\ UNCHANGED <<raw_renewal_B, raw_arr_A, raw_arr_B, out>>
                    /\ error' = "KeyError"
                    /\ pc' = "error"
    /\ UNCHANGED <<file, df, group_counts, total_obs, countVars,
                   p_value_prop, p_value_arr, flagVars>>

\* Lines 66-91: the counts of the two groups and the z-test on them.
ZTest ==
    /\ pc = "ztest"
    /\ LET kA == ColumnSum(df, "Renewal_Status", Mask(df, "A"))
           nA == ColumnCount(df, "Renewal_Status", Mask(df, "A"))
           kB == ColumnSum(df, "Renewal_Status", Mask(df, "B"))
           nB == ColumnCount(df, "Renewal_Status", Mask(df, "B"))
       IN /\ renewals_A' = kA /\ nobs_A' = nA
          /\ renewals_B' = kB /\ nobs_B' = nB
          /\ \E p \in ProportionsZTest(kA, nA, kB, nB) : p_value_prop' = p
    /\ bound' = bound \cup { "renewals_A", "nobs_A", "renewals_B", "nobs_B",
                            "p_value_prop" }
    /\ out' = out \o << "Z_TEST_RESULT" >>
    /\ pc' = "zconclude"
    /\ UNCHANGED <<file, df, group_counts, total_obs, grouped_stats, rawVars,
                   p_value_arr, flagVars, error>>

\* Lines 93-97: the conclusion printed for the z-test.
ZConclusion ==
    /\ pc = "zconclude"
    /\ out' = out \o << IF ZTestRejects(p_value_prop)
                          THEN "Z_REJECT_NULL" ELSE "Z_FAIL_TO_REJECT" >>
    /\ pc' = "ttest"
    /\ UNCHANGED <<file, df, group_counts, total_obs, grouped_stats, rawVars, countVars,
                   p_value_prop, p_value_arr, flagVars, error, bound>>

\* Lines 102-129: Welch's t-test on the two groups' Discounted_ARR.  std_A and
\* std_B (lines 112-113) are printed and not read again.
TTest ==
    /\ pc = "ttest"
    /\ \E p \in TTestInd(df, Mask(df, "A"), Mask(df, "B")) : p_value_arr' = p
    /\ bound' = bound \cup { "p_value_arr" }
    /\ out' = out \o << "T_TEST_RESULT" >>
    /\ pc' = "tconclude"
    /\ UNCHANGED <<file, df, group_counts, total_obs, grouped_stats, rawVars, countVars,
                   p_value_prop, flagVars, error>>

\* Lines 131-135: the conclusion printed for the t-test.
TConclusion ==
    /\ pc = "tconclude"
    /\ out' = out \o << IF TTestRejects(p_value_arr)
                          THEN "T_REJECT_NULL" ELSE "T_FAIL_TO_REJECT" >>
    /\ pc' = "interpret"
    /\ UNCHANGED <<file, df, group_counts, total_obs, grouped_stats, rawVars, countVars,
                   p_value_prop, p_value_arr, flagVars, error, bound>>

\* Lines 139-187: the two significance flags and the final recommendation.
Interpretation ==
    /\ pc = "interpret"
    /\ LET rs == RenewalIsSignificant(p_value_prop)
           as == ArrIsSignificant(p_value_arr)
       IN /\ renewal_is_significant' = rs
          /\ arr_is_significant' = as
          /\ out' = out \o Recommendation(rs, as, raw_renewal_A, raw_renewal_B,
                                          raw_arr_A, raw_arr_B)
    /\ bound' = bound \cup { "renewal_is_significant", "arr_is_significant" }
    /\ pc' = "done"
    /\ UNCHANGED <<file, df, group_counts, total_obs, grouped_stats, rawVars, countVars,
                   p_value_prop, p_value_arr, error>>

Next ==
    \/ LoadData
    \/ QualityChecks
    \/ DescriptiveStatistics
    \/ ZTest
    \/ ZConclusion
    \/ TTest
    \/ TConclusion
    \/ Interpretation

Spec == Init /\ [][Next]_vars

\* The script runs to its end: no step waits.
LiveSpec == Spec /\ WF_vars(Next)

-----------------------------------------------------------------------------
(* The balance check alone, on datasets large enough for its 5% threshold *)

BalanceInit == \E d \in BalanceDatasets : InitWith(FileOf(d))

BalanceNext == LoadData \/ QualityChecks

BalanceSpec == BalanceInit /\ [][BalanceNext]_vars

-----------------------------------------------------------------------------
(* The conclusions and the recommendation alone (lines 93-187), on every        *)
(* combination of the values they read: the four raw values of Step 2 and the   *)
(* two p-values.                                                                *)

RawRates == { Rat(0, 1), Rat(1, 2), Rat(1, 1) }

RawMeans == { Rat(100, 1), Rat(105, 1), Rat(110, 1) }

\* The state before line 93: the z-test has returned p_value_prop.
VerdictInit ==
    /\ file = NoFile
    /\ pc = "zconclude"
    /\ df = <<>>
    /\ group_counts = <<>>
    /\ total_obs = 0
    /\ grouped_stats = <<>>
    /\ raw_renewal_A \in RawRates /\ raw_renewal_B \in RawRates
    /\ raw_arr_A \in RawMeans /\ raw_arr_B \in RawMeans
    /\ renewals_A = 0 /\ nobs_A = 0 /\ renewals_B = 0 /\ nobs_B = 0
    /\ p_value_prop \in PValues
    /\ p_value_arr = NaN
    /\ renewal_is_significant = FALSE /\ arr_is_significant = FALSE
    /\ out = <<>>
    /\ error = "none"
    /\ bound = { "df", "group_counts", "total_obs", "grouped_stats", "raw_renewal_A",
                 "raw_renewal_B", "raw_arr_A", "raw_arr_B", "renewals_A", "nobs_A",
                 "renewals_B", "nobs_B", "p_value_prop" }

\* Line 122 as the steps after it see it: the t-test returns some p-value.
TTestReturns ==
    /\ pc = "ttest"
    /\ \E p \in PValues : p_value_arr' = p
    /\ bound' = bound \cup { "p_value_arr" }
    /\ out' = out \o << "T_TEST_RESULT" >>
    /\ pc' = "tconclude"
    /\ UNCHANGED <<file, df, group_counts, total_obs, grouped_stats, rawVars, countVars,
                   p_value_prop, flagVars, error>>

VerdictNext == ZConclusion \/ TTestReturns \/ TConclusion \/ Interpretation

VerdictSpec == VerdictInit /\ [][VerdictNext]_vars

-----------------------------------------------------------------------------
(* What the properties below read off a state *)

\* The line was printed.
InOut(line) == \E i \in DOMAIN out : out[i] = line

\* How many of the lines printed are among the given ones.
CountOut(lines) == Cardinality({ i \in DOMAIN out : out[i] \in lines })

\* The first line of each of the five recommendations.
Headlines ==
    { "REC_CLEAR_WINNER_A", "REC_CLEAR_WINNER_B", "REC_MIXED", "REC_ONLY_ONE",
      "REC_NEITHER" }

\* The p-values of PValues that are strictly below 0.05.
BelowAlpha == { Rat(0, 1), Rat(1, 1000), Rat(49, 1000) }

\* x is the larger of two raw values (neither is NaN where this is used).
Higher(x, y) == x.num * y.den > y.num * x.den

\* The five outcome categories, read off the lines printed.
OutSameWinner == InOut("REC_CLEAR_WINNER_A") \/ InOut("REC_CLEAR_WINNER_B")

OutConflicting == InOut("REC_MIXED")

OutOnlyProportion ==
    /\ InOut("REC_ONLY_ONE")
    /\ InOut("RENEWAL_SIG_WINNER_A") \/ InOut("RENEWAL_SIG_WINNER_B")
    /\ InOut("ARR_NOT_SIG")

OutOnlyMean ==
    /\ InOut("REC_ONLY_ONE")
    /\ InOut("RENEWAL_NOT_SIG")
    /\ InOut("ARR_SIG_WINNER_A") \/ InOut("ARR_SIG_WINNER_B")

OutNeither == InOut("REC_NEITHER")

OutCategories ==
    << OutSameWinner, OutConflicting, OutOnlyProportion, OutOnlyMean, OutNeither >>

\* The rows of the data file with the label g.
FileRows(g) == { i \in DOMAIN file.rows : file.rows[i].Test_Group = g }

\* The data file exists and holds at least one row of each of A and B.
BothGroupsPresent == file.exists /\ FileRows("A") # {} /\ FileRows("B") # {}

-----------------------------------------------------------------------------
(* C1 *)

\* C1: for every combination of the two significance flags and of the two
\* comparisons of raw values (A higher, B higher, equal), the finished
\* recommendation is exactly one of the five categories: one headline is printed,
\* exactly one category holds of the output, and it is the category of the flags
\* (both: same winner or conflicting; one: only proportion or only mean, which
\* differ in their lines; none: neither).
C1_ExactlyOneCategory ==
    pc = "done" =>
        LET sp == p_value_prop \in BelowAlpha
            sm == p_value_arr \in BelowAlpha
        IN /\ CountOut(Headlines) = 1
           /\ Cardinality({ k \in 1..5 : OutCategories[k] }) = 1
           /\ (sp /\ sm) <=> (OutSameWinner \/ OutConflicting)
           /\ (sp /\ ~sm) <=> OutOnlyProportion
           /\ (~sp /\ sm) <=> OutOnlyMean
           /\ (~sp /\ ~sm) <=> OutNeither

\* Only the mean test is significant, and the renewal rates are equal.
C1_Witness ==
    /\ pc = "done"
    /\ OutOnlyMean
    /\ ~Higher(raw_renewal_A, raw_renewal_B) /\ ~Higher(raw_renewal_B, raw_renewal_A)

-----------------------------------------------------------------------------
(* C2 *)

\* C2: the action to implement a group's strategy is printed if and only if both
\* tests are significant and that group has both the higher raw renewal rate and
\* the higher raw mean ARR (A: the lower discount, B: the higher discount).
C2_ImplementIffClearWinner ==
    pc = "done" =>
        LET both == p_value_prop \in BelowAlpha /\ p_value_arr \in BelowAlpha
        IN /\ InOut("ACTION_IMPLEMENT_LOWER_DISCOUNT")
                <=> (both /\ Higher(raw_renewal_A, raw_renewal_B)
                          /\ Higher(raw_arr_A, raw_arr_B))
           /\ InOut("ACTION_IMPLEMENT_HIGHER_DISCOUNT")
                <=> (both /\ Higher(raw_renewal_B, raw_renewal_A)
                          /\ Higher(raw_arr_B, raw_arr_A))

\* B wins both metrics, both significant: the higher discount is to be implemented.
C2_Witness ==
    /\ pc = "done"
    /\ InOut("ACTION_IMPLEMENT_HIGHER_DISCOUNT")
    /\ Higher(raw_renewal_B, raw_renewal_A) /\ Higher(raw_arr_B, raw_arr_A)

-----------------------------------------------------------------------------
(* C3 *)

\* The two tests are significant and name different groups.
ConflictingWinners ==
    /\ p_value_prop \in BelowAlpha /\ p_value_arr \in BelowAlpha
    /\ \/ Higher(raw_renewal_A, raw_renewal_B) /\ Higher(raw_arr_B, raw_arr_A)
       \/ Higher(raw_renewal_B, raw_renewal_A) /\ Higher(raw_arr_A, raw_arr_B)

\* C3: when both tests are significant and one group has the higher renewal rate,
\* the other the higher mean ARR, the recommendation is the mixed one, leaving the
\* choice to the stakeholders, and no line names a group as the winner.
C3_ConflictIsMixed ==
    (pc = "done" /\ ConflictingWinners) =>
        /\ InOut("REC_MIXED") /\ InOut("ACTION_STAKEHOLDERS_DECIDE")
        /\ CountOut({ "REC_CLEAR_WINNER_A", "REC_CLEAR_WINNER_B",
                      "ACTION_IMPLEMENT_LOWER_DISCOUNT",
                      "ACTION_IMPLEMENT_HIGHER_DISCOUNT",
                      "RENEWAL_SIG_WINNER_A", "RENEWAL_SIG_WINNER_B",
                      "ARR_SIG_WINNER_A", "ARR_SIG_WINNER_B" }) = 0

\* A has the higher renewal rate, B the higher mean ARR, both significant.
C3_Witness ==
    /\ pc = "done"
    /\ ConflictingWinners
    /\ Higher(raw_renewal_A, raw_renewal_B) /\ Higher(raw_arr_B, raw_arr_A)
    /\ InOut("REC_MIXED")

-----------------------------------------------------------------------------
(* C4 *)

\* C4: when the finished recommendation names a winner for a metric whose two raw
\* values are equal, it names neither A nor B (it reports a tie), and no exception
\* was raised.
C4_TieNamesNoGroup ==
    pc = "done" =>
        /\ error = "none"
        /\ (~Higher(raw_renewal_A, raw_renewal_B) /\ ~Higher(raw_renewal_B, raw_renewal_A))
             => ~InOut("RENEWAL_SIG_WINNER_A") /\ ~InOut("RENEWAL_SIG_WINNER_B")
        /\ (~Higher(raw_arr_A, raw_arr_B) /\ ~Higher(raw_arr_B, raw_arr_A))
             => ~InOut("ARR_SIG_WINNER_A") /\ ~InOut("ARR_SIG_WINNER_B")

-----------------------------------------------------------------------------
(* C5 *)

\* C5: on a dataset with no row of group A or no row of group B, the empty
\* dataset included, the run never evaluates grouped_stats.
C5_NoSummaryWithoutBothGroups ==
    (file.exists /\ ~BothGroupsPresent) => "grouped_stats" \notin bound

-----------------------------------------------------------------------------
(* C6 *)

\* The z-test has run and its pooled standard error is zero: every row of A and B
\* has the same Renewal_Status.
PooledSEZero ==
    /\ "p_value_prop" \in bound
    /\ \/ renewals_A + renewals_B = 0
       \/ renewals_A + renewals_B = nobs_A + nobs_B

\* C6: when the pooled standard error of the proportion test is zero, its p-value
\* is not compared with ALPHA: no conclusion nor recommendation reports the
\* renewal rate as not significant.
C6_DegenerateNeverNotSignificant ==
    PooledSEZero =>
        /\ ~InOut("Z_FAIL_TO_REJECT")
        /\ ~InOut("RENEWAL_NOT_SIG")
        /\ ~InOut("REC_NEITHER")

-----------------------------------------------------------------------------
(* C7 *)

\* C7: each significance flag of the recommendation is true exactly when the
\* test's p-value is strictly below 0.05 (false at 0.05 and on NaN), and agrees
\* with the conclusion printed for that test.
C7_FlagIffBelowAlpha ==
    pc = "done" =>
        /\ renewal_is_significant <=> p_value_prop \in BelowAlpha
        /\ arr_is_significant <=> p_value_arr \in BelowAlpha
        /\ InOut("Z_REJECT_NULL") <=> renewal_is_significant
        /\ InOut("Z_FAIL_TO_REJECT") <=> ~renewal_is_significant
        /\ InOut("T_REJECT_NULL") <=> arr_is_significant
        /\ InOut("T_FAIL_TO_REJECT") <=> ~arr_is_significant

\* Both p-values are exactly 0.05: neither flag is set, both tests fail to reject.
C7_Witness ==
    /\ pc = "done"
    /\ p_value_prop = Rat(50, 1000) /\ p_value_arr = Rat(50, 1000)
    /\ ~renewal_is_significant /\ ~arr_is_significant
    /\ InOut("Z_FAIL_TO_REJECT") /\ InOut("T_FAIL_TO_REJECT")

-----------------------------------------------------------------------------
(* C8 *)

\* C8: on a dataset with both groups, the balance warning is printed if and only
\* if the difference of the two group sizes is strictly more than 5% of the number
\* of rows (20 |a - b| > n): 52 against 48 of 100 does not warn, 53 against 47 does.
C8_WarnIffOverFivePercent ==
    (BothGroupsPresent /\ pc \notin { "load", "check" }) =>
        LET a == Cardinality(FileRows("A"))
            b == Cardinality(FileRows("B"))
            n == Len(file.rows)
            w == InOut("WARNING_UNBALANCED")
        IN /\ w <=> (20 * Abs(a - b) > n)
           /\ (a = 52 /\ b = 48 /\ n = 100) => ~w
           /\ (a = 53 /\ b = 47 /\ n = 100) => w
           /\ (20 * Abs(a - b) = n) => ~w

\* 53 rows of A and 47 of B, 100 in all: the warning was printed.
C8_Witness ==
    /\ pc = "describe"
    /\ Cardinality(FileRows("A")) = 53 /\ Cardinality(FileRows("B")) = 47
    /\ Len(file.rows) = 100
    /\ InOut("WARNING_UNBALANCED")

-----------------------------------------------------------------------------
(* C9 *)

\* C9: on every dataset with a row of each of A and B the run never ends in an
\* error, reaches its end, and has then printed exactly one recommendation, with
\* or without the balance warning; and the step that prints the warning changes
\* neither the data nor any summary, test result or flag.
C9_WarningNeverHalts ==
    /\ [](BothGroupsPresent => pc \notin { "error", "exited" })
    /\ [](BothGroupsPresent => <>(pc = "done"))
    /\ []((BothGroupsPresent /\ pc = "done") => CountOut(Headlines) = 1)
    /\ [][pc = "check" =>
            UNCHANGED <<file, df, grouped_stats, rawVars, countVars,
                        p_value_prop, p_value_arr, flagVars>>]_vars

\* A run that printed the warning and went on to its one recommendation.
C9_Witness ==
    /\ pc = "done"
    /\ InOut("WARNING_UNBALANCED")
    /\ CountOut(Headlines) = 1

-----------------------------------------------------------------------------
(* C10 *)

====
